---------------------------- MODULE Spec2Model ----------------------------
(***************************************************************************)
(* Constant propagation over the typed AST                                 *)
(* (zokrates_core/src/static_analysis/propagation.rs).                     *)
(*                                                                         *)
(* Two state machines share the propagation operators:                     *)
(*   SpecExpr  one call of TypedExpression::propagate on an expression and *)
(*             a constant environment drawn from bounded sets;             *)
(*   Spec      TypedProg::propagate, one step per statement, followed by a *)
(*             second call of TypedProg::propagate on its own output.      *)
(***************************************************************************)
EXTENDS Integers, Sequences, FiniteSets

VARIABLES
    prog,        \* the TypedProg handed to TypedProg::propagate (self)
    pass,        \* 1: first call of TypedProg::propagate, 2: call on its output
    phase,       \* position in the pass: idle, loop, body, done, panicked, expr
    fidx,        \* index of the function the `for f in self.functions` loop is at
    pc,          \* index of the statement the filter_map of the function is at
    constants,   \* the HashMap<Variable, TypedExpression> of the current function
    statements,  \* statements collected so far for the current function
    functions,   \* the vector of functions propagated so far
    first,       \* the TypedProg the first call returned (NoResult before)
    expr,        \* SpecExpr: the expression propagate is called on
    result       \* what the call returned: NoResult, a value, or a panic

vars == <<prog, pass, phase, fidx, pc, constants, statements, functions, first, expr, result>>

(***************************************************************************)
(* Bounds of the model.                                                    *)
(***************************************************************************)
\* The field is instantiated with the PrimeIndex-th prime instead of the
\* 254-bit prime of the compiler; PrimeIndex = 4 is the field of 7 elements.
PrimeIndex == 4
\* A program of Spec has at most MaxProgSize statements and function
\* boundaries together.
MaxProgSize == 3

SmallPrimes == <<2, 3, 5, 7, 11, 13, 17>>
P == SmallPrimes[PrimeIndex]
FieldValues == 0 .. (P - 1)

(***************************************************************************)
(* The field T: Field.  Its implementation is not part of the pass; it is  *)
(* modelled as the prime field of P elements with canonical                *)
(* representatives 0 .. P-1.                                               *)
(***************************************************************************)
FieldAdd(a, b) == (a + b) % P
FieldSub(a, b) == (a + P - b) % P
FieldMult(a, b) == (a * b) % P
\* the multiplicative inverse; zero has none
HasInverse(b) == \E x \in FieldValues : (b * x) % P = 1
FieldInverse(b) == CHOOSE x \in FieldValues : (b * x) % P = 1
FieldDiv(a, b) == FieldMult(a, FieldInverse(b))
RECURSIVE FieldPow(_, _)
FieldPow(a, b) == IF b = 0 THEN 1 % P ELSE FieldMult(a, FieldPow(a, b - 1))

(***************************************************************************)
(* The typed AST (typed_absy), as records.                                 *)
(***************************************************************************)
\* Variable::field_element(id), Variable::boolean(id)
VariableFieldElement(id) == [id |-> id, type |-> "FieldElement"]
VariableBoolean(id) == [id |-> id, type |-> "Boolean"]

\* FieldElementExpression
Number(n) == [tag |-> "Number", n |-> n]
Identifier(id) == [tag |-> "Identifier", id |-> id]
Binary(op, e1, e2) == [tag |-> op, e1 |-> e1, e2 |-> e2]
IfElse(c, e1, e2) == [tag |-> "IfElse", c |-> c, e1 |-> e1, e2 |-> e2]
\* FunctionCall(id, arguments): the arguments are TypedExpressions
FunctionCall(id, args) == [tag |-> "FunctionCall", id |-> id, args |-> args]
\* BooleanExpression (Identifier, Eq .. Ge are built with Identifier and Binary)
Value(v) == [tag |-> "Value", v |-> v]

\* TypedExpression
FieldElement(e) == [tag |-> "FieldElement", e |-> e]
Boolean(e) == [tag |-> "Boolean", e |-> e]

\* TypedExpressionList
ListFunctionCall(id, args, types) ==
    [tag |-> "FunctionCall", id |-> id, args |-> args, types |-> types]

\* TypedStatement
Declaration(v) == [tag |-> "Declaration", v |-> v]
Definition(v, e) == [tag |-> "Definition", v |-> v, e |-> e]
Return(es) == [tag |-> "Return", es |-> es]
Condition(e1, e2) == [tag |-> "Condition", e1 |-> e1, e2 |-> e2]
For == [tag |-> "For"]
MultipleDefinition(vs, list) == [tag |-> "MultipleDefinition", vs |-> vs, list |-> list]

\* TypedFunction, TypedProg (the fields the pass copies with ..self are kept)
TypedFunction(id, arguments, stmts) ==
    [id |-> id, arguments |-> arguments, statements |-> stmts]
TypedProg(fs, imports) == [functions |-> fs, imports |-> imports]

ArithmeticOps == {"Add", "Sub", "Mult", "Div", "Pow"}
ComparisonOps == {"Eq", "Lt", "Le", "Gt", "Ge"}

(***************************************************************************)
(* Outcomes of a call.  propagate returns Self: it has no error value, so  *)
(* a failure inside it is a panic that unwinds through every caller.       *)
(***************************************************************************)
NoResult == [tag |-> "none"]
Panic(msg) == [tag |-> "panic", msg |-> msg]
IsPanic(r) == r.tag = "panic"

\* HashMap::new(), HashMap::insert
EmptyConstants == [k \in {} |-> NoResult]
Insert(c, k, e) == [x \in (DOMAIN c) \cup {k} |-> IF x = k THEN e ELSE c[x]]

(***************************************************************************)
(* FieldElementExpression::propagate and BooleanExpression::propagate.     *)
(***************************************************************************)
RECURSIVE PropagateField(_, _), PropagateBoolean(_, _), PropagateTyped(_, _)

\* the literal arms with the two operands exchanged
FoldFieldSwapped(op, n1, n2) ==
    CASE op = "Add" -> Number(FieldAdd(n2, n1))
      [] op = "Sub" -> Number(FieldSub(n2, n1))
      [] op = "Mult" -> Number(FieldMult(n2, n1))
      [] op = "Div" -> IF HasInverse(n1) THEN Number(FieldDiv(n2, n1))
                       ELSE Panic("division by zero")
      [] op = "Pow" -> Number(FieldPow(n2, n1))

\* the (Number(n1), Number(n2)) arm of the match of each arithmetic node:
\* n1 + n2, n1 - n2, n1 * n2, n1 / n2, n1.pow(n2).  The division has no
\* result for n2 = 0, and nothing but a panic can leave the arm then.
FoldField(op, n1, n2) ==
    CASE op = "Add" -> Number(FieldAdd(n1, n2))
      [] op = "Sub" -> Number(FieldSub(n1, n2))
      [] op = "Mult" -> Number(FieldMult(n1, n2))
      [] op = "Div" -> IF HasInverse(n2) THEN Number(FieldDiv(n1, n2))
                       ELSE Panic("division by zero")
      [] op = "Pow" -> Number(FieldPow(n1, n2))

\* the literal arms with the strict comparisons made lax
FoldComparisonLax(op, n1, n2) ==
    CASE op = "Eq" -> Value(n1 = n2)
      [] op = "Lt" -> Value(n1 <= n2)
      [] op = "Le" -> Value(n1 <= n2)
      [] op = "Gt" -> Value(n1 >= n2)
      [] op = "Ge" -> Value(n1 >= n2)

\* the (Number(n1), Number(n2)) arm of the match of each comparison node
FoldComparison(op, n1, n2) ==
    CASE op = "Eq" -> Value(n1 = n2)
      [] op = "Lt" -> Value(n1 < n2)
      [] op = "Le" -> Value(n1 <= n2)
      [] op = "Gt" -> Value(n1 > n2)
      [] op = "Ge" -> Value(n1 >= n2)

\* the (e1, e2) arm with e + 0 and e - 0 simplified to e
RebuildSimplified(op, e1, e2) ==
    IF op \in {"Add", "Sub"} /\ e2 = Number(0) THEN e1 ELSE Binary(op, e1, e2)

\* the (e1, e2) arm: the same node over the propagated operands
Rebuild(op, e1, e2) == Binary(op, e1, e2)

\* FieldElementExpression::Identifier / BooleanExpression::Identifier
PropagateIdentifier(e, key, kind, c) ==
    IF key \in DOMAIN c
    THEN IF c[key].tag = kind THEN c[key].e ELSE Panic("")
    ELSE Identifier(e.id)

\* an arithmetic node whose literal test looks at the operands as written,
\* before their propagation
PropagateArithmeticUnpropagated(e, c) ==
    LET r1 == PropagateField(e.e1, c) IN
    IF IsPanic(r1) THEN r1 ELSE
    LET r2 == PropagateField(e.e2, c) IN
    IF IsPanic(r2) THEN r2 ELSE
    IF e.e1.tag = "Number" /\ e.e2.tag = "Number"
    THEN FoldField(e.tag, r1.n, r2.n)
    ELSE Rebuild(e.tag, r1, r2)

\* Add, Sub, Mult, Div, Pow: both operands are propagated, first e1 then e2,
\* and the pair is matched
PropagateArithmetic(e, c) ==
    LET r1 == PropagateField(e.e1, c) IN
    IF IsPanic(r1) THEN r1 ELSE
    LET r2 == PropagateField(e.e2, c) IN
    IF IsPanic(r2) THEN r2 ELSE
    IF r1.tag = "Number" /\ r2.tag = "Number"
    THEN FoldField(e.tag, r1.n, r2.n)
    ELSE Rebuild(e.tag, r1, r2)

\* Eq, Lt, Le, Gt, Ge: both field operands are propagated, first e1 then e2,
\* and the pair is matched
PropagateComparison(e, c) ==
    LET r1 == PropagateField(e.e1, c) IN
    IF IsPanic(r1) THEN r1 ELSE
    LET r2 == PropagateField(e.e2, c) IN
    IF IsPanic(r2) THEN r2 ELSE
    IF r1.tag = "Number" /\ r2.tag = "Number"
    THEN FoldComparison(e.tag, r1.n, r2.n)
    ELSE Rebuild(e.tag, r1, r2)

\* IfElse: consequence, then alternative, then the condition
PropagateIfElse(e, c) ==
    LET consequence == PropagateField(e.e1, c) IN
    IF IsPanic(consequence) THEN consequence ELSE
    LET alternative == PropagateField(e.e2, c) IN
    IF IsPanic(alternative) THEN alternative ELSE
    LET condition == PropagateBoolean(e.c, c) IN
    IF IsPanic(condition) THEN condition ELSE
    IF condition = Value(TRUE) THEN consequence
    ELSE IF condition = Value(FALSE) THEN alternative
    ELSE IfElse(condition, consequence, alternative)

\* arguments.into_iter().map(|a| a.propagate(..)).collect(): the first
\* argument that panics ends the call
FirstPanic(rs) ==
    LET bad == {i \in 1 .. Len(rs) : IsPanic(rs[i])} IN
    rs[CHOOSE i \in bad : \A j \in bad : i <= j]
AnyPanic(rs) == \E i \in 1 .. Len(rs) : IsPanic(rs[i])

PropagateFunctionCall(e, c) ==
    LET arguments == [i \in 1 .. Len(e.args) |-> PropagateTyped(e.args[i], c)] IN
    IF AnyPanic(arguments) THEN FirstPanic(arguments)
    ELSE FunctionCall(e.id, arguments)

PropagateField(e, c) ==
    CASE e.tag = "Number" -> Number(e.n)
      [] e.tag = "Identifier" ->
            PropagateIdentifier(e, VariableFieldElement(e.id), "FieldElement", c)
      [] e.tag \in ArithmeticOps -> PropagateArithmetic(e, c)
      [] e.tag = "IfElse" -> PropagateIfElse(e, c)
      [] e.tag = "FunctionCall" -> PropagateFunctionCall(e, c)

PropagateBoolean(e, c) ==
    CASE e.tag = "Value" -> Value(e.v)
      [] e.tag = "Identifier" ->
            PropagateIdentifier(e, VariableBoolean(e.id), "Boolean", c)
      [] e.tag \in ComparisonOps -> PropagateComparison(e, c)

\* TypedExpression::propagate
PropagateTyped(e, c) ==
    LET r == IF e.tag = "FieldElement" THEN PropagateField(e.e, c)
             ELSE PropagateBoolean(e.e, c) IN
    IF IsPanic(r) THEN r
    ELSE IF e.tag = "FieldElement" THEN FieldElement(r) ELSE Boolean(r)

(***************************************************************************)
(* SpecExpr: one call of TypedExpression::propagate.                       *)
(***************************************************************************)
Literals == {Number(n) : n \in FieldValues}
Leaves == Literals \cup {Identifier("x"), Identifier("a")}
NestedOperands ==
    { Binary("Add", Number(1), Number(2)),
      Binary("Mult", Identifier("a"), Number(0)),
      Binary("Sub", Identifier("x"), Number(2)),
      Binary("Div", Number(1), Number(0)),
      FunctionCall("f", <<FieldElement(Identifier("x")),
                          Boolean(Identifier("b")),
                          FieldElement(Binary("Add", Number(1), Number(1)))>>) }
Operands == Leaves \cup NestedOperands
ConditionInputs ==
    { Value(TRUE), Value(FALSE), Identifier("b"),
      Binary("Lt", Identifier("x"), Number(3)),
      Binary("Eq", Number(1), Number(1)) }
FieldInputs ==
    Operands
    \cup {Binary(op, e1, e2) : op \in ArithmeticOps, e1 \in Operands, e2 \in Operands}
    \cup {IfElse(cnd, e1, e2) : cnd \in ConditionInputs, e1 \in Operands, e2 \in Operands}
BooleanInputs ==
    ConditionInputs
    \cup {Binary(op, e1, e2) : op \in ComparisonOps, e1 \in Operands, e2 \in Operands}
ExprInputs ==
    {FieldElement(e) : e \in FieldInputs} \cup {Boolean(e) : e \in BooleanInputs}

\* environments a function body can have built: every value a literal of the
\* kind of its key
ConstantsInputs ==
    { EmptyConstants,
      Insert(EmptyConstants, VariableFieldElement("x"), FieldElement(Number(2))),
      Insert(Insert(EmptyConstants, VariableFieldElement("x"), FieldElement(Number(0))),
             VariableBoolean("b"), Boolean(Value(TRUE))),
      Insert(Insert(EmptyConstants, VariableFieldElement("a"), FieldElement(Number(1))),
             VariableBoolean("b"), Boolean(Value(FALSE))) }

InitExpr ==
    /\ expr \in ExprInputs
    /\ constants \in ConstantsInputs
    /\ result = NoResult
    /\ phase = "expr"
    /\ prog = TypedProg(<<>>, <<>>)
    /\ pass = 1
    /\ fidx = 1
    /\ pc = 1
    /\ statements = <<>>
    /\ functions = <<>>
    /\ first = NoResult

\* e.propagate(&mut constants, &functions) on a TypedExpression
PropagateExpression ==
    /\ phase = "expr"
    /\ result = NoResult
    /\ result' = PropagateTyped(expr, constants)
    /\ UNCHANGED <<prog, pass, phase, fidx, pc, constants, statements, functions, first, expr>>

NextExpr == PropagateExpression

SpecExpr == InitExpr /\ [][NextExpr]_vars

(***************************************************************************)
(* Statements.                                                             *)
(***************************************************************************)
\* expressions.into_iter().map(|e| e.propagate(..)).collect()
PropagateExpressions(es, c) == [i \in 1 .. Len(es) |-> PropagateTyped(es[i], c)]

\* TypedExpressionList::propagate
PropagateExpressionList(l, c) ==
    LET arguments == PropagateExpressions(l.args, c) IN
    IF AnyPanic(arguments) THEN FirstPanic(arguments)
    ELSE ListFunctionCall(l.id, arguments, l.types)

\* the literal pattern without its Boolean alternative
IsLiteralNumberOnly(e) == e.tag = "FieldElement" /\ e.e.tag = "Number"

\* the pattern of the first arm of the match of a propagated definition:
\* Boolean(Value(..)) | FieldElement(Number(..))
IsLiteral(e) ==
    \/ (e.tag = "Boolean" /\ e.e.tag = "Value")
    \/ (e.tag = "FieldElement" /\ e.e.tag = "Number")

\* a definition that is not constant forgets what was known of its variable
ConstantsAfterDefinitionForgetting(c, v, e) ==
    IF IsLiteral(e) THEN Insert(c, v, e)
    ELSE [k \in (DOMAIN c) \ {v} |-> c[k]]

\* the environment after Definition(v, _) whose expression propagated to e
ConstantsAfterDefinition(c, v, e) ==
    IF IsLiteral(e) THEN Insert(c, v, e) ELSE c

\* what the filter_map keeps of Definition(v, _): None or Some(Definition(v, e))
KeptAfterDefinition(v, e) ==
    IF IsLiteral(e) THEN <<>> ELSE <<Definition(v, e)>>

(***************************************************************************)
(* Spec: TypedProg::propagate.                                             *)
(***************************************************************************)
\* the environment of the function propagated before, kept
StaleConstants == constants

\* let mut constants = HashMap::new()
FreshConstants == EmptyConstants

\* self of the running call: the input, then the first call's output
Self == IF pass = 1 THEN prog ELSE first
\* the function and the statement the two loops are at
CurrentFunction == Self.functions[fidx]
Body == CurrentFunction.statements
AtStatement(tag) == phase = "body" /\ pc <= Len(Body) /\ Body[pc].tag = tag

\* pub fn propagate(self): let mut functions = vec![]
PropagateProg ==
    /\ phase = "idle"
    /\ functions' = <<>>
    /\ fidx' = 1
    /\ phase' = "loop"
    /\ UNCHANGED <<prog, pass, pc, constants, statements, first, expr, result>>

\* for f in self.functions { f.propagate(&mut functions) ..: a new environment
PropagateFunction ==
    /\ phase = "loop"
    /\ fidx <= Len(Self.functions)
    /\ constants' = FreshConstants
    /\ statements' = <<>>
    /\ pc' = 1
    /\ phase' = "body"
    /\ UNCHANGED <<prog, pass, fidx, functions, first, expr, result>>

\* a statement whose propagation panicked ends the call
Unwind(r) ==
    /\ phase' = "panicked"
    /\ result' = r
    /\ UNCHANGED <<prog, pass, fidx, pc, constants, statements, functions, first, expr>>

\* the statement was propagated to `kept` (no or one statement), leaving c
Step(kept, c) ==
    /\ statements' = statements \o kept
    /\ constants' = c
    /\ pc' = pc + 1
    /\ UNCHANGED <<prog, pass, phase, fidx, functions, first, expr, result>>

PropagateDeclaration ==
    /\ AtStatement("Declaration")
    /\ Step(<<Declaration(Body[pc].v)>>, constants)

PropagateReturn ==
    /\ AtStatement("Return")
    /\ LET es == PropagateExpressions(Body[pc].es, constants) IN
       IF AnyPanic(es) THEN Unwind(FirstPanic(es)) ELSE Step(<<Return(es)>>, constants)

PropagateDefinition ==
    /\ AtStatement("Definition")
    /\ LET e == PropagateTyped(Body[pc].e, constants) IN
       IF IsPanic(e) THEN Unwind(e)
       ELSE Step(KeptAfterDefinition(Body[pc].v, e),
                 ConstantsAfterDefinition(constants, Body[pc].v, e))

PropagateCondition ==
    /\ AtStatement("Condition")
    /\ LET e1 == PropagateTyped(Body[pc].e1, constants) IN
       IF IsPanic(e1) THEN Unwind(e1) ELSE
       LET e2 == PropagateTyped(Body[pc].e2, constants) IN
       IF IsPanic(e2) THEN Unwind(e2) ELSE Step(<<Condition(e1, e2)>>, constants)

PropagateFor ==
    /\ AtStatement("For")
    /\ Unwind(Panic("no for expected"))

PropagateMultipleDefinition ==
    /\ AtStatement("MultipleDefinition")
    /\ LET l == PropagateExpressionList(Body[pc].list, constants) IN
       IF IsPanic(l) THEN Unwind(l)
       ELSE Step(<<MultipleDefinition(Body[pc].vs, l)>>, constants)

\* TypedFunction { statements: .., ..self } is pushed on functions
CollectFunction ==
    /\ phase = "body"
    /\ pc > Len(Body)
    /\ functions' = Append(functions, [CurrentFunction EXCEPT !.statements = statements])
    /\ fidx' = fidx + 1
    /\ phase' = "loop"
    /\ UNCHANGED <<prog, pass, pc, constants, statements, first, expr, result>>

\* TypedProg { functions, ..self }
ReturnProg ==
    /\ phase = "loop"
    /\ fidx > Len(Self.functions)
    /\ result' = [Self EXCEPT !.functions = functions]
    /\ phase' = "done"
    /\ UNCHANGED <<prog, pass, fidx, pc, constants, statements, functions, first, expr>>

\* the caller hands the propagated program to propagate once more
PropagateAgain ==
    /\ phase = "done"
    /\ pass = 1
    /\ first' = result
    /\ pass' = 2
    /\ phase' = "idle"
    /\ result' = NoResult
    /\ UNCHANGED <<prog, fidx, pc, constants, statements, functions, expr>>

(***************************************************************************)
(* The programs Spec starts from.                                          *)
(***************************************************************************)
x == VariableFieldElement("x")
y == VariableFieldElement("y")
b == VariableBoolean("b")
FId(id) == FieldElement(Identifier(id))
FNum(n) == FieldElement(Number(n))

StatementInputs ==
    { Declaration(x),
      Definition(x, FNum(2)),
      Definition(x, FNum(3)),
      Definition(x, FId("a")),
      Definition(y, FieldElement(Binary("Add", Identifier("x"), Number(3)))),
      Definition(b, Boolean(Binary("Lt", Identifier("x"), Number(3)))),
      Definition(y, FieldElement(IfElse(Identifier("b"), Identifier("x"),
            Binary("Div", Number(1), Binary("Sub", Identifier("x"), Number(2)))))),
      Definition(y, FieldElement(FunctionCall("f",
            <<FId("x"), Boolean(Identifier("b"))>>))),
      Return(<<FId("y")>>),
      Return(<<FId("x")>>),
      Return(<<FieldElement(Binary("Mult", Identifier("x"), Identifier("y"))),
               Boolean(Identifier("b"))>>),
      Condition(FId("x"), FNum(2)),
      MultipleDefinition(<<x, y>>,
            ListFunctionCall("f", <<FId("x")>>, <<"FieldElement", "FieldElement">>)),
      For }

\* a program is written as its statements in order, EndOfFunction between two
\* functions
EndOfFunction == [tag |-> "EndOfFunction"]
Tokens == StatementInputs \cup {EndOfFunction}
TokenSeqs == UNION {[1 .. n -> Tokens] : n \in 0 .. MaxProgSize}

RECURSIVE SplitFunctions(_)
SplitFunctions(toks) ==
    LET ends == {i \in 1 .. Len(toks) : toks[i] = EndOfFunction} IN
    IF ends = {} THEN <<toks>>
    ELSE LET i == CHOOSE k \in ends : \A j \in ends : k <= j IN
         <<SubSeq(toks, 1, i - 1)>> \o SplitFunctions(SubSeq(toks, i + 1, Len(toks)))

FunctionNames == <<"main", "f", "g", "h", "k">>
\* every function takes the field element a
ProgOf(toks) ==
    LET bodies == SplitFunctions(toks) IN
    TypedProg([i \in 1 .. Len(bodies) |->
                  TypedFunction(FunctionNames[i], <<VariableFieldElement("a")>>, bodies[i])],
              <<"imports">>)
ProgInputs == {ProgOf(t) : t \in TokenSeqs}

Init ==
    /\ prog \in ProgInputs
    /\ pass = 1
    /\ phase = "idle"
    /\ fidx = 1
    /\ pc = 1
    /\ constants = EmptyConstants
    /\ statements = <<>>
    /\ functions = <<>>
    /\ first = NoResult
    /\ expr = NoResult
    /\ result = NoResult

Next ==
    \/ PropagateProg
    \/ PropagateFunction
    \/ PropagateDeclaration
    \/ PropagateReturn
    \/ PropagateDefinition
    \/ PropagateCondition
    \/ PropagateFor
    \/ PropagateMultipleDefinition
    \/ CollectFunction
    \/ ReturnProg
    \/ PropagateAgain

Spec == Init /\ [][Next]_vars

(***************************************************************************)
(* Claims about one call of propagate on an expression (SpecExpr).         *)
(***************************************************************************)
\* the call has returned or panicked
Returned == phase = "expr" /\ result # NoResult
\* expr is a field (boolean) node with operator in ops over two literals
OverLiterals(kind, ops) ==
    /\ expr.tag = kind
    /\ expr.e.tag \in ops
    /\ expr.e.e1.tag = "Number"
    /\ expr.e.e2.tag = "Number"

\* a to the power n modulo P, by squaring
RECURSIVE ModPower(_, _)
ModPower(a, n) ==
    IF n = 0 THEN 1 % P
    ELSE LET h == ModPower(a, n \div 2) IN
         IF n % 2 = 0 THEN (h * h) % P ELSE (((h * h) % P) * a) % P

\* C3: an arithmetic node over two literals a and b propagates to the single
\* literal Number that is the sum, difference (wrapped modulo the prime when
\* a < b), product or power of a and b modulo the prime, and for Div with
\* b # 0 to the literal that multiplied by b gives a.
C3_LiteralArithmeticFolds ==
    (Returned /\ OverLiterals("FieldElement", ArithmeticOps)
       /\ ~(expr.e.tag = "Div" /\ expr.e.e2.n = 0))
    => LET a == expr.e.e1.n
           bb == expr.e.e2.n
           op == expr.e.tag
       IN  /\ result.tag = "FieldElement"
           /\ result.e.tag = "Number"
           /\ result.e.n \in FieldValues
           /\ op = "Add" => result.e.n = (a + bb) % P
           /\ op = "Sub" => result.e.n = (IF a < bb THEN a - bb + P ELSE a - bb)
           /\ op = "Mult" => result.e.n = (a * bb) % P
           /\ op = "Pow" => result.e.n = ModPower(a, bb)
           /\ op = "Div" => (result.e.n * bb) % P = a

\* a subtraction that wraps has been folded
C3_Witness ==
    /\ Returned
    /\ expr = FieldElement(Binary("Sub", Number(2), Number(4)))
    /\ result = FieldElement(Number(P - 2))

\* C4: a Div whose operands propagate to literals, the second to zero, ends
\* in a division-by-zero error value handed to the caller: neither a literal
\* Number nor a panic.
C4_DivisionByZeroIsAnErrorValue ==
    (Returned /\ expr.tag = "FieldElement" /\ expr.e.tag = "Div"
       /\ PropagateField(expr.e.e1, constants).tag = "Number"
       /\ PropagateField(expr.e.e2, constants) = Number(0))
    => (result.tag = "error" /\ ~IsPanic(result) /\ result.tag # "FieldElement")

\* C5: a comparison over two literals a and b propagates to the boolean
\* literal of the integer comparison of their canonical representatives.
C5_LiteralComparisonFolds ==
    (Returned /\ OverLiterals("Boolean", ComparisonOps))
    => LET a == expr.e.e1.n
           bb == expr.e.e2.n
           op == expr.e.tag
       IN  /\ result.tag = "Boolean"
           /\ result.e.tag = "Value"
           /\ op = "Eq" => result.e.v = (a = bb)
           /\ op = "Lt" => result.e.v = (a < bb)
           /\ op = "Le" => result.e.v = (a <= bb)
           /\ op = "Gt" => result.e.v = (a > bb)
           /\ op = "Ge" => result.e.v = (a >= bb)

\* Lt of two equal literals has been folded to false
C5_Witness ==
    /\ Returned
    /\ expr = Boolean(Binary("Lt", Number(2), Number(2)))
    /\ result = Boolean(Value(FALSE))

\* C6: an IfElse whose condition propagates to Value(true) yields the
\* propagated consequence, and to Value(false) the propagated alternative,
\* whatever the propagation of the discarded branch does.
C6_DiscardedBranchNeverSurfaces ==
    (Returned /\ expr.tag = "FieldElement" /\ expr.e.tag = "IfElse")
    => LET cnd == PropagateBoolean(expr.e.c, constants)
           kept == IF cnd = Value(TRUE) THEN PropagateField(expr.e.e1, constants)
                   ELSE PropagateField(expr.e.e2, constants)
       IN  (cnd \in {Value(TRUE), Value(FALSE)} /\ ~IsPanic(kept))
           => result = FieldElement(kept)

\* C9: a binary arithmetic or comparison node of which, after propagation of
\* both operands, at least one is not a literal, propagates to the node with
\* the same operator over the two propagated operands in the same order.
C9_UnfoldedNodeIsRebuilt ==
    (Returned /\ expr.e.tag \in ArithmeticOps \cup ComparisonOps)
    => LET r1 == PropagateField(expr.e.e1, constants)
           r2 == PropagateField(expr.e.e2, constants)
       IN  (~IsPanic(r1) /\ ~IsPanic(r2) /\ ~(r1.tag = "Number" /\ r2.tag = "Number"))
           => /\ result.tag = expr.tag
              /\ result.e = [tag |-> expr.e.tag, e1 |-> r1, e2 |-> r2]

\* x + 0 with x unknown has been propagated and is still x + 0
C9_Witness ==
    /\ Returned
    /\ expr = FieldElement(Binary("Add", Identifier("x"), Number(0)))
    /\ constants = Insert(Insert(EmptyConstants, VariableFieldElement("a"),
                                 FieldElement(Number(1))),
                          VariableBoolean("b"), Boolean(Value(FALSE)))
    /\ result = expr

(***************************************************************************)
(* Execution of a function body, top to bottom, on the values of its       *)
(* arguments: the meaning propagation has to preserve.                     *)
(***************************************************************************)
RECURSIVE EvalField(_, _), EvalBoolean(_, _), Exec(_, _, _)
EvalField(e, st) ==
    CASE e.tag = "Number" -> e.n
      [] e.tag = "Identifier" -> st[VariableFieldElement(e.id)]
      [] e.tag = "Add" -> FieldAdd(EvalField(e.e1, st), EvalField(e.e2, st))
      [] e.tag = "Sub" -> FieldSub(EvalField(e.e1, st), EvalField(e.e2, st))
      [] e.tag = "Mult" -> FieldMult(EvalField(e.e1, st), EvalField(e.e2, st))
      [] e.tag = "IfElse" ->
            IF EvalBoolean(e.c, st) THEN EvalField(e.e1, st) ELSE EvalField(e.e2, st)
EvalBoolean(e, st) ==
    CASE e.tag = "Value" -> e.v
      [] e.tag = "Identifier" -> st[VariableBoolean(e.id)]
      [] e.tag = "Eq" -> EvalField(e.e1, st) = EvalField(e.e2, st)
      [] e.tag = "Lt" -> EvalField(e.e1, st) < EvalField(e.e2, st)
      [] e.tag = "Le" -> EvalField(e.e1, st) <= EvalField(e.e2, st)
      [] e.tag = "Gt" -> EvalField(e.e1, st) > EvalField(e.e2, st)
      [] e.tag = "Ge" -> EvalField(e.e1, st) >= EvalField(e.e2, st)
EvalTyped(e, st) ==
    IF e.tag = "FieldElement" THEN EvalField(e.e, st) ELSE EvalBoolean(e.e, st)
\* the values returned by body[i ..] started in store st
Exec(body, i, st) ==
    IF i > Len(body) THEN <<>>
    ELSE CASE body[i].tag = "Declaration" -> Exec(body, i + 1, st)
           [] body[i].tag = "Definition" ->
                 Exec(body, i + 1, Insert(st, body[i].v, EvalTyped(body[i].e, st)))
           [] body[i].tag = "Return" ->
                 [j \in 1 .. Len(body[i].es) |-> EvalTyped(body[i].es[j], st)]
\* the store a call starts in: each argument bound to the value v
ArgumentStore(f, v) == [k \in {f.arguments[i] : i \in 1 .. Len(f.arguments)} |-> v]

(***************************************************************************)
(* The variables an expression or a statement reads, and its operators.    *)
(***************************************************************************)
RECURSIVE IdsField(_), IdsBoolean(_), IdsTyped(_), OpsOf(_)
IdsField(e) ==
    CASE e.tag = "Number" -> {}
      [] e.tag = "Identifier" -> {VariableFieldElement(e.id)}
      [] e.tag \in ArithmeticOps -> IdsField(e.e1) \cup IdsField(e.e2)
      [] e.tag = "IfElse" -> IdsBoolean(e.c) \cup IdsField(e.e1) \cup IdsField(e.e2)
      [] e.tag = "FunctionCall" -> UNION {IdsTyped(e.args[i]) : i \in 1 .. Len(e.args)}
IdsBoolean(e) ==
    CASE e.tag = "Value" -> {}
      [] e.tag = "Identifier" -> {VariableBoolean(e.id)}
      [] e.tag \in ComparisonOps -> IdsField(e.e1) \cup IdsField(e.e2)
IdsTyped(e) == IF e.tag = "FieldElement" THEN IdsField(e.e) ELSE IdsBoolean(e.e)
IdsOfAll(es) == UNION {IdsTyped(es[i]) : i \in 1 .. Len(es)}
IdsStatement(s) ==
    CASE s.tag = "Definition" -> IdsTyped(s.e)
      [] s.tag = "Return" -> IdsOfAll(s.es)
      [] s.tag = "Condition" -> IdsTyped(s.e1) \cup IdsTyped(s.e2)
      [] s.tag = "MultipleDefinition" -> IdsOfAll(s.list.args)
      [] OTHER -> {}
\* the tags of the nodes of an expression
OpsOf(e) ==
    {e.tag} \cup
    CASE e.tag \in ArithmeticOps \cup ComparisonOps -> OpsOf(e.e1) \cup OpsOf(e.e2)
      [] e.tag = "IfElse" -> OpsOf(e.c) \cup OpsOf(e.e1) \cup OpsOf(e.e2)
      [] e.tag = "FunctionCall" -> UNION {OpsOf(e.args[i].e) : i \in 1 .. Len(e.args)}
      [] OTHER -> {}
OpsStatement(s) ==
    CASE s.tag = "Definition" -> OpsOf(s.e.e)
      [] s.tag = "Return" -> UNION {OpsOf(s.es[i].e) : i \in 1 .. Len(s.es)}
      [] OTHER -> {}

\* e is a literal: Number or Value
Lit(e) ==
    \/ (e.tag = "FieldElement" /\ e.e.tag = "Number")
    \/ (e.tag = "Boolean" /\ e.e.tag = "Value")

(***************************************************************************)
(* Claims about the propagation of functions and programs (Spec).          *)
(***************************************************************************)
\* f is a body of Declaration, Definition and Return statements over field
\* element variables, without calls, Div or Pow, that reads a variable only
\* after its definition or as an argument
Straight(f) ==
    LET body == f.statements
        args == {f.arguments[i] : i \in 1 .. Len(f.arguments)}
    IN  \A i \in 1 .. Len(body) :
          /\ body[i].tag \in {"Declaration", "Definition", "Return"}
          /\ body[i].tag \in {"Declaration", "Definition"}
                => body[i].v.type = "FieldElement"
          /\ OpsStatement(body[i]) \cap {"FunctionCall", "Div", "Pow"} = {}
          /\ \A k \in IdsStatement(body[i]) :
                \/ k \in args
                \/ \E j \in 1 .. (i - 1) : body[j].tag = "Definition" /\ body[j].v = k

\* C1: for every such body and every value of the arguments, executing the
\* propagated body returns what executing the original body returns.
C1_PropagationPreservesMeaning ==
    (phase = "done" /\ pass = 1)
    => \A i \in 1 .. Len(prog.functions) :
          Straight(prog.functions[i])
          => \A v \in FieldValues :
                Exec(result.functions[i].statements, 1,
                     ArgumentStore(result.functions[i], v))
                = Exec(prog.functions[i].statements, 1,
                       ArgumentStore(prog.functions[i], v))

\* a statement of the current function is about to be propagated, and is
\* propagated without a panic
StatementStep == phase = "body" /\ pc <= Len(Body) /\ phase' = "body"

ExampleBody ==
    << Definition(x, FNum(2)),
       Definition(y, FieldElement(Binary("Add", Identifier("x"), Number(3)))),
       Return(<<FId("y")>>) >>

\* C2 as stated: a Definition(v, e) is dropped exactly when the propagated e
\* is a literal, v -> literal is then recorded, and every later Identifier
\* reference to v in the same function is replaced by that literal: where a
\* Return([Identifier(v)]) follows a Definition of v by a literal, it becomes
\* the Return of that literal.
C2_EveryLaterReferenceIsThatLiteral ==
    [][ /\ (StatementStep /\ Body[pc].tag = "Definition")
           => LET e == PropagateTyped(Body[pc].e, constants) IN
              /\ (statements' = statements) <=> Lit(e)
              /\ Lit(e) => /\ Body[pc].v \in DOMAIN constants'
                           /\ constants'[Body[pc].v] = e
        /\ StatementStep
           => \A id \in {"x", "y"} : \A i \in 1 .. (pc - 1) :
                 (/\ Body[pc] = Return(<<FId(id)>>)
                  /\ Body[i].tag = "Definition"
                  /\ Body[i].v = VariableFieldElement(id)
                  /\ Lit(Body[i].e))
                 => statements' = Append(statements, Return(<<Body[i].e>>))
      ]_vars

\* C2, amended: a Definition(v, e) is dropped exactly when the propagated e
\* is a literal, v -> literal is then recorded and stays recorded until a
\* later Definition of v records another literal, and no reference to a
\* recorded variable survives in a statement propagated later: a returned
\* Identifier of v is the literal recorded for v.  The example body
\* propagates to [Return([Number(5)])].
C2_LiteralDefinitionsAreSubstituted ==
    [][ /\ (StatementStep /\ Body[pc].tag = "Definition")
           => LET e == PropagateTyped(Body[pc].e, constants) IN
              /\ (statements' = statements) <=> Lit(e)
              /\ Lit(e) => /\ Body[pc].v \in DOMAIN constants'
                           /\ constants'[Body[pc].v] = e
              /\ ~Lit(e) => statements' = Append(statements, Definition(Body[pc].v, e))
        /\ StatementStep
           => /\ \A k \in DOMAIN constants :
                    (Body[pc].tag = "Definition" /\ Body[pc].v = k
                       /\ Lit(PropagateTyped(Body[pc].e, constants)))
                    \/ (k \in DOMAIN constants' /\ constants'[k] = constants[k])
              /\ \A n \in (Len(statements) + 1) .. Len(statements') :
                    IdsStatement(statements'[n]) \cap DOMAIN constants = {}
              /\ \A id \in {"x", "y"} :
                    (Body[pc] = Return(<<FId(id)>>)
                       /\ VariableFieldElement(id) \in DOMAIN constants)
                    => statements' = Append(statements,
                                            Return(<<constants[VariableFieldElement(id)]>>))
        /\ (phase' = "done" /\ pass = 1 /\ Len(prog.functions) = 1
              /\ prog.functions[1].statements = ExampleBody)
           => result'.functions[1].statements = <<Return(<<FNum(5)>>)>>
      ]_vars

\* the example body has been propagated to [Return([Number(5)])]
C2_Witness ==
    /\ phase = "done"
    /\ pass = 1
    /\ prog.functions[1].statements = ExampleBody
    /\ result.functions[1].statements = <<Return(<<FNum(5)>>)>>

\* C7: while a function is propagated, every variable of the constant
\* environment was recorded by a Definition of that same function, above
\* the statement being propagated: the environment is empty where the
\* function starts and holds nothing of another function.
C7_ConstantsAreOfTheCurrentFunction ==
    phase = "body"
    => /\ \A k \in DOMAIN constants :
             \E i \in 1 .. (pc - 1) : Body[i].tag = "Definition" /\ Body[i].v = k
       /\ pc = 1 => constants = EmptyConstants

\* the first function recorded x -> 2 and the second one returned x as it is
C7_Witness ==
    /\ pass = 1
    /\ phase = "body"
    /\ fidx = 2
    /\ prog.functions[1].statements = <<Definition(x, FNum(2))>>
    /\ functions[1].statements = <<>>
    /\ Body = <<Return(<<FId("x")>>)>>
    /\ statements = <<Return(<<FId("x")>>)>>

\* C8: propagating the program a first propagation returned succeeds and
\* returns that very program.
C8_PropagationIsIdempotent ==
    pass = 2
    => /\ phase # "panicked"
       /\ phase = "done" => result = first

\* a program the first propagation changed has been propagated again
C8_Witness ==
    /\ pass = 2
    /\ phase = "done"
    /\ first # prog
    /\ first.functions[1].statements = <<Return(<<FNum(5)>>)>>
    /\ result = first

\* C10: the propagation of a statement changes the environment only when
\* the statement is a Definition whose propagated expression is a literal,
\* and then by recording that literal for its variable and nothing else;
\* every value of the environment is a literal.
C10_OnlyLiteralDefinitionsChangeConstants ==
    [][ (phase = "body" /\ pc <= Len(Body))
        => /\ constants' # constants
              => /\ Body[pc].tag = "Definition"
                 /\ Lit(PropagateTyped(Body[pc].e, constants))
                 /\ DOMAIN constants' = DOMAIN constants \cup {Body[pc].v}
                 /\ \A k \in DOMAIN constants' :
                       constants'[k] = IF k = Body[pc].v
                                       THEN PropagateTyped(Body[pc].e, constants)
                                       ELSE constants[k]
           /\ Body[pc].tag # "Definition" => constants' = constants
           /\ \A k \in DOMAIN constants' : Lit(constants'[k])
      ]_vars

\* x -> 2 was recorded, then a MultipleDefinition of x and y was propagated:
\* the environment is still x -> 2
C10_Witness ==
    /\ phase = "body"
    /\ pc = 3
    /\ Body[1] = Definition(x, FNum(2))
    /\ Body[2].tag = "MultipleDefinition"
    /\ Len(statements) = 1
    /\ constants = Insert(EmptyConstants, x, FNum(2))

=============================================================================
